---- MODULE Spec2Model ----
(***************************************************************************)
(* Model of ZhipuAILLM (project/llm/zhipuai_llm.py): the parameter merge   *)
(* (_default_params, _convert_prompt_msg_params) and the four entry points *)
(* _call, _acall, _stream and _astream run against a scripted client.      *)
(*                                                                         *)
(* A text is a sequence of one-character strings.  A Python dict is a      *)
(* function from its keys to its values; Python values that are only       *)
(* copied by the merge are written as strings.                             *)
(***************************************************************************)
EXTENDS Naturals, Sequences, FiniteSets, TLC

VARIABLES
    self,      \* the configuration fields of the ZhipuAILLM object read by the merge
    prompt,    \* the prompt argument of _convert_prompt_msg_params
    kwargs,    \* the **kwargs argument of _convert_prompt_msg_params
    params,    \* the dict _convert_prompt_msg_params returned (NoParams before the call)
    inv        \* the invocations under way: slot -> invocation record

vars == <<self, prompt, kwargs, params, inv>>

----------------------------------------------------------------------------
(* Bounds of the model.                                                    *)

\* longest client stream (items yielded by client.invoke / client.ado)
MaxItems == 2
\* longest choice list of a non-streaming response
MaxChoices == 2
\* longest content text of a choice
MaxTextLen == 3
\* longest whole text T of the round trip, and the most fragments it is split into
MaxWhole == 3
MaxSplit == 3

----------------------------------------------------------------------------
(* Texts.                                                                  *)

Quote == "\""
Space == " "
Char == {Quote, Space, "a"}

\* the spec's example content: "hi there" followed by a space (11 characters)
HiThereContent == <<Quote, "h", "i", Space, "t", "h", "e", "r", "e", Quote, Space>>
HiThere == <<"h", "i", Space, "t", "h", "e", "r", "e">>
He == <<"H", "e">>
Llo == <<"l", "l", "o">>
Hello == <<"H", "e", "l", "l", "o">>

TextsUpTo(n) == UNION {[1..k -> Char] : k \in 0..n}

\* str.strip(chars) for a one-character chars argument: drop every leading and
\* every trailing occurrence of c.
RECURSIVE LStrip(_, _)
LStrip(s, c) == IF s # <<>> /\ Head(s) = c THEN LStrip(Tail(s), c) ELSE s

RECURSIVE RStrip(_, _)
RStrip(s, c) ==
    IF s # <<>> /\ s[Len(s)] = c THEN RStrip(SubSeq(s, 1, Len(s) - 1), c) ELSE s

PyStrip(s, c) == RStrip(LStrip(s, c), c)

\* content.strip('"').strip(" ")  (line 163)
StripContent(content) == PyStrip(PyStrip(content, Quote), Space)

\* completion += chunk.text over a whole sequence of texts
RECURSIVE ConcatAll(_)
ConcatAll(ts) == IF ts = <<>> THEN <<>> ELSE Head(ts) \o ConcatAll(Tail(ts))

----------------------------------------------------------------------------
(* The parameter merge.                                                    *)

\* {**a, **b}: the keys of both, b's value where both have the key
DictMerge(a, b) ==
    [k \in (DOMAIN a) \cup (DOMAIN b) |-> IF k \in DOMAIN b THEN b[k] ELSE a[k]]

EmptyDict == [k \in {} |-> "None"]

\* _default_params: {**normal_params, **self.model_kwargs}
NormalParams(s) ==
    [k \in {"streaming", "top_p", "temperature", "request_id"} |->
        CASE k = "streaming" -> s.streaming
          [] k = "top_p" -> s.top_p
          [] k = "temperature" -> s.temperature
          [] k = "request_id" -> s.request_id]

DefaultParams(s) == DictMerge(NormalParams(s), s.model_kwargs)

PromptAndModel(s, p) ==
    [k \in {"prompt", "model"} |-> IF k = "prompt" THEN p ELSE s.model]

NoParams == [k \in {"<not called>"} |-> "None"]

\* the call raised TypeError: got multiple values for argument <name>, where <name>
\* is the first of the colliding keywords `names` in the order the call passes them
\* (an order a dict written as a function does not carry)
MultipleValuesError(names) == [k \in {"<TypeError>"} |-> names]

\* a merge that puts the per-call kwargs below the defaults
ConvertPromptMsgParamsKwargsLow(s, p, kw) ==
    DictMerge(DictMerge(PromptAndModel(s, p), kw), DefaultParams(s))

\* a merge that puts {prompt, model} above the defaults
ConvertPromptMsgParamsPromptHigh(s, p, kw) ==
    DictMerge(DictMerge(DefaultParams(s), PromptAndModel(s, p)), kw)

\* _convert_prompt_msg_params(self, prompt, **kwargs):
\*   {**{"prompt": prompt, "model": self.model}, **self._default_params, **kwargs}
\* A keyword "self" or "prompt" is bound to the parameter of that name, which the
\* call has already given: the call raises TypeError and builds no dict.
ConvertPromptMsgParams(s, p, kw) ==
    LET collide == DOMAIN kw \cap {"self", "prompt"}
    IN  IF collide # {} THEN MultipleValuesError(collide)
        ELSE DictMerge(DictMerge(PromptAndModel(s, p), DefaultParams(s)), kw)

DictsOver(keys, values) == UNION {[ks -> values] : ks \in SUBSET keys}

\* the class's field defaults, and one non-default value for the fields the
\* merge copies
Configs ==
    [streaming : {"False", "True"},
     top_p : {"0.8"},
     temperature : {"0.95"},
     request_id : {"None"},
     model : {"chatglm_turbo", "chatglm_pro"},
     model_kwargs : DictsOver({"prompt", "model", "top_p", "max_tokens"}, {"x", "y"})]

DefaultConfig ==
    [streaming |-> "False", top_p |-> "0.8", temperature |-> "0.95",
     request_id |-> "None", model |-> "chatglm_turbo", model_kwargs |-> EmptyDict]

Prompts == {"p1", "p2"}
\* **kwargs collects the keywords other than "self" and "prompt"
Overrides == DictsOver({"model", "top_p", "temperature", "max_tokens"}, {"x", "z"})

InitMerge ==
    /\ self \in Configs
    /\ prompt \in Prompts
    /\ kwargs \in Overrides
    /\ params = NoParams
    /\ inv = <<>>

\* one call of _convert_prompt_msg_params(prompt, **kwargs)
Merge ==
    /\ params = NoParams
    /\ params' = ConvertPromptMsgParams(self, prompt, kwargs)
    /\ UNCHANGED <<self, prompt, kwargs, inv>>

NextMerge == Merge

SpecMerge == InitMerge /\ [][NextMerge]_vars

----------------------------------------------------------------------------
(* The scripted client.                                                    *)
(*                                                                         *)
(* An item is what the client's stream yields next: None, a str, a payload *)
(* dict {"data": {"choices": {"content": v}}}, or the client raising.      *)

NoneItem == [t |-> "none", v |-> <<>>]
StrItem(v) == [t |-> "str", v |-> v]
PayloadItem(v) == [t |-> "payload", v |-> v]
RaiseItem == [t |-> "raise", v |-> <<>>]

\* Python truth value of an item (`if res:`): None and "" are falsy, a non-empty
\* str and a non-empty dict are truthy
Truthy(item) ==
    CASE item.t = "none" -> FALSE
      [] item.t = "str" -> item.v # <<>>
      [] item.t = "payload" -> TRUE
      [] OTHER -> FALSE

ItemTexts == {<<>>, <<"a">>, <<Quote>>, <<Space>>, He, Llo}
PayloadTexts == {<<>>, <<"a">>}
YieldedItems ==
    {NoneItem} \cup {StrItem(v) : v \in ItemTexts} \cup {PayloadItem(v) : v \in PayloadTexts}

\* the client's stream: up to n yielded items, or fewer followed by the client raising
ItemScripts(n) ==
    UNION {[1..k -> YieldedItems] : k \in 0..n}
    \cup UNION {{Append(s, RaiseItem) : s \in [1..k -> YieldedItems]} : k \in 0..(n - 1)}

Contents == TextsUpTo(MaxTextLen) \cup {HiThereContent}
ChoiceLists == UNION {[1..k -> Contents] : k \in 0..MaxChoices}

NoResult == <<"<no result>">>
NoError == "none"

\* an invocation before its first step
NewInvocation(entry, streaming, run_manager, dispatch_ok, items, choices) ==
    [entry |-> entry,              \* "call", "acall", "stream" or "astream"
     streaming |-> streaming,      \* self.streaming
     run_manager |-> run_manager,  \* whether a run_manager was passed
     client |-> [dispatch_ok |-> dispatch_ok, items |-> items, choices |-> choices],
     pc |-> "start",
     dispatched |-> 0,             \* calls made to the client
     pos |-> 0,                    \* items taken from the client's stream
     emitted |-> <<>>,             \* texts of the chunks yielded by _stream/_astream
     tokens |-> <<>>,              \* texts passed to run_manager.on_llm_new_token
     completion |-> <<>>,          \* the local `completion` of _call/_acall
     result |-> NoResult,          \* the returned string
     error |-> NoError]            \* the exception raised

Fail(r, e) == [r EXCEPT !.pc = "failed", !.error = e]

\* whether the invocation runs the generator (_stream/_astream) or the single request
Streams(r) == r.entry \in {"stream", "astream"} \/ r.streaming

----------------------------------------------------------------------------
(* _call, streaming disabled (lines 160-163).                              *)

AtCallInvoke(r) == r.entry = "call" /\ ~r.streaming /\ r.pc = "start"

\* params = ...; response_payload = self.client.invoke(**params)
CallInvoke(r) ==
    LET d == [r EXCEPT !.dispatched = @ + 1]
    IN  IF r.client.dispatch_ok THEN [d EXCEPT !.pc = "responded"]
        ELSE Fail(d, "ClientError")

AtCallExtract(r) == r.entry = "call" /\ r.pc = "responded"

\* return response_payload["data"]["choices"][-1]["content"].strip('"').strip(" ")
CallExtract(r) ==
    LET choices == r.client.choices
    IN  IF choices = <<>> THEN Fail(r, "IndexError")
        ELSE [r EXCEPT !.pc = "returned",
                       !.result = StripContent(choices[Len(choices)])]

----------------------------------------------------------------------------
(* _acall, streaming disabled (lines 178-182).                             *)

AtACallInvoke(r) == r.entry = "acall" /\ ~r.streaming /\ r.pc = "start"

\* params = ...; self.client.async_invoke(**params) is called and the coroutine
\* suspends at the await
ACallInvoke(r) == [r EXCEPT !.dispatched = @ + 1, !.pc = "awaiting"]

AtACallAwaited(r) == r.entry = "acall" /\ ~r.streaming /\ r.pc = "awaiting"

\* response = await ...: the coroutine is resumed with the response, or with the
\* client's exception
ACallAwaited(r) ==
    IF r.client.dispatch_ok THEN [r EXCEPT !.pc = "responded"]
    ELSE Fail(r, "ClientError")

AtACallReturn(r) == r.entry = "acall" /\ r.pc = "responded"

\* return response_payload: the name is bound nowhere in _acall, the module or
\* the builtins, so evaluating it raises NameError
ACallReturn(r) == Fail(r, "NameError")

----------------------------------------------------------------------------
(* _stream (lines 191-198) and the loop of _call that drives it (155-159). *)

IsSync(r) == r.entry \in {"call", "stream"}

AtStreamInvoke(r) == IsSync(r) /\ Streams(r) /\ r.pc = "start"

\* params = ...; self.client.invoke(**params), on the generator's first next()
StreamInvoke(r) ==
    LET d == [r EXCEPT !.dispatched = @ + 1]
    IN  IF r.client.dispatch_ok THEN [d EXCEPT !.pc = "iter"]
        ELSE Fail(d, "ClientError")

AtStreamNext(r) == IsSync(r) /\ Streams(r) /\ r.pc = "iter"

\* for res in self.client.invoke(**params): if res: chunk = GenerationChunk(text=res);
\* yield chunk.  GenerationChunk.text is a pydantic str field: a dict is rejected.
StreamNext(r) ==
    IF r.pos = Len(r.client.items) THEN [r EXCEPT !.pc = "exhausted"]
    ELSE LET res == r.client.items[r.pos + 1]
             t == [r EXCEPT !.pos = @ + 1]
         IN  CASE res.t = "raise" -> Fail(t, "ClientError")
               [] ~Truthy(res) -> t
               [] res.t = "payload" -> Fail(t, "ValidationError")
               [] OTHER -> [t EXCEPT !.emitted = Append(@, res.v), !.pc = "yielded"]

\* the generator is resumed after its yield: by the next() of a direct consumer,
\* or by _call's loop once it has added the chunk
AtStreamResume(r) ==
    \/ r.entry = "stream" /\ r.pc = "yielded"
    \/ r.entry = "call" /\ r.pc = "accumulated"

\* a generator that never notifies the run_manager
StreamResumeNoCallback(r) == [r EXCEPT !.pc = "iter"]

\* if run_manager: run_manager.on_llm_new_token(chunk.text)
StreamResume(r) ==
    [r EXCEPT !.pc = "iter",
              !.tokens = IF r.run_manager THEN Append(@, r.emitted[Len(r.emitted)])
                         ELSE @]

AtCallAccumulate(r) == r.entry = "call" /\ r.pc = "yielded"

\* a loop that puts the chunk in front of the completion
CallAccumulatePrepend(r) ==
    [r EXCEPT !.completion = r.emitted[Len(r.emitted)] \o @, !.pc = "accumulated"]

\* a loop that keeps only the latest chunk
CallAccumulateOverwrite(r) ==
    [r EXCEPT !.completion = r.emitted[Len(r.emitted)], !.pc = "accumulated"]

\* completion += chunk.text
CallAccumulate(r) ==
    [r EXCEPT !.completion = @ \o r.emitted[Len(r.emitted)], !.pc = "accumulated"]

AtCallReturn(r) == r.entry = "call" /\ r.pc = "exhausted"

\* return completion
CallReturn(r) == [r EXCEPT !.pc = "returned", !.result = r.completion]

\* a direct consumer of _stream/_astream stops iterating while the generator is
\* suspended at its yield: the generator is closed there and runs no further
AtAbandon(r) == r.entry \in {"stream", "astream"} /\ r.pc = "yielded"
Abandon(r) == [r EXCEPT !.pc = "closed"]

----------------------------------------------------------------------------
(* _astream (lines 208-216) and the loop of _acall that drives it (172-176). *)

AtAStreamInvoke(r) == ~IsSync(r) /\ Streams(r) /\ r.pc = "start"

\* params = ...; self.client.ado(**params) is called on the generator's first step
\* and the generator suspends at the await
AStreamInvoke(r) == [r EXCEPT !.dispatched = @ + 1, !.pc = "awaiting"]

AtAStreamAwaited(r) == ~IsSync(r) /\ Streams(r) /\ r.pc = "awaiting"

\* await self.client.ado(**params): the generator is resumed with the client's
\* stream, or with the client's exception
AStreamAwaited(r) ==
    IF r.client.dispatch_ok THEN [r EXCEPT !.pc = "iter"]
    ELSE Fail(r, "ClientError")

AtAStreamNext(r) == ~IsSync(r) /\ Streams(r) /\ r.pc = "iter"

\* async for res in ...: if res:
\*     chunk = GenerationChunk(text=res["data"]["choices"]["content"]); yield chunk
\* Indexing a str with "data" raises TypeError.
AStreamNext(r) ==
    IF r.pos = Len(r.client.items) THEN [r EXCEPT !.pc = "exhausted"]
    ELSE LET res == r.client.items[r.pos + 1]
             t == [r EXCEPT !.pos = @ + 1]
         IN  CASE res.t = "raise" -> Fail(t, "ClientError")
               [] ~Truthy(res) -> t
               [] res.t = "str" -> Fail(t, "TypeError")
               [] OTHER -> [t EXCEPT !.emitted = Append(@, res.v), !.pc = "yielded"]

AtAStreamResume(r) ==
    \/ r.entry = "astream" /\ r.pc = "yielded"
    \/ r.entry = "acall" /\ r.pc = "accumulated"

\* if run_manager: await run_manager.on_llm_new_token(chunk.text)
AStreamResume(r) ==
    [r EXCEPT !.pc = "iter",
              !.tokens = IF r.run_manager THEN Append(@, r.emitted[Len(r.emitted)])
                         ELSE @]

AtACallAccumulate(r) == r.entry = "acall" /\ r.pc = "yielded"

\* completion += chunk.text
ACallAccumulate(r) ==
    [r EXCEPT !.completion = @ \o r.emitted[Len(r.emitted)], !.pc = "accumulated"]

AtACallReturnCompletion(r) == r.entry = "acall" /\ r.pc = "exhausted"

\* return completion
ACallReturnCompletion(r) == [r EXCEPT !.pc = "returned", !.result = r.completion]

----------------------------------------------------------------------------
(* Actions: one step of one invocation.                                    *)

mergeVars == <<self, prompt, kwargs, params>>

DoCallInvoke ==
    \E i \in DOMAIN inv :
        /\ AtCallInvoke(inv[i])
        /\ inv' = [inv EXCEPT ![i] = CallInvoke(inv[i])]
        /\ UNCHANGED mergeVars

DoCallExtract ==
    \E i \in DOMAIN inv :
        /\ AtCallExtract(inv[i])
        /\ inv' = [inv EXCEPT ![i] = CallExtract(inv[i])]
        /\ UNCHANGED mergeVars

DoACallInvoke ==
    \E i \in DOMAIN inv :
        /\ AtACallInvoke(inv[i])
        /\ inv' = [inv EXCEPT ![i] = ACallInvoke(inv[i])]
        /\ UNCHANGED mergeVars

DoACallAwaited ==
    \E i \in DOMAIN inv :
        /\ AtACallAwaited(inv[i])
        /\ inv' = [inv EXCEPT ![i] = ACallAwaited(inv[i])]
        /\ UNCHANGED mergeVars

DoACallReturn ==
    \E i \in DOMAIN inv :
        /\ AtACallReturn(inv[i])
        /\ inv' = [inv EXCEPT ![i] = ACallReturn(inv[i])]
        /\ UNCHANGED mergeVars

DoStreamInvoke ==
    \E i \in DOMAIN inv :
        /\ AtStreamInvoke(inv[i])
        /\ inv' = [inv EXCEPT ![i] = StreamInvoke(inv[i])]
        /\ UNCHANGED mergeVars

DoStreamNext ==
    \E i \in DOMAIN inv :
        /\ AtStreamNext(inv[i])
        /\ inv' = [inv EXCEPT ![i] = StreamNext(inv[i])]
        /\ UNCHANGED mergeVars

DoStreamResume ==
    \E i \in DOMAIN inv :
        /\ AtStreamResume(inv[i])
        /\ inv' = [inv EXCEPT ![i] = StreamResume(inv[i])]
        /\ UNCHANGED mergeVars

DoCallAccumulate ==
    \E i \in DOMAIN inv :
        /\ AtCallAccumulate(inv[i])
        /\ inv' = [inv EXCEPT ![i] = CallAccumulate(inv[i])]
        /\ UNCHANGED mergeVars

DoCallReturn ==
    \E i \in DOMAIN inv :
        /\ AtCallReturn(inv[i])
        /\ inv' = [inv EXCEPT ![i] = CallReturn(inv[i])]
        /\ UNCHANGED mergeVars

DoAbandon ==
    \E i \in DOMAIN inv :
        /\ AtAbandon(inv[i])
        /\ inv' = [inv EXCEPT ![i] = Abandon(inv[i])]
        /\ UNCHANGED mergeVars

DoAStreamInvoke ==
    \E i \in DOMAIN inv :
        /\ AtAStreamInvoke(inv[i])
        /\ inv' = [inv EXCEPT ![i] = AStreamInvoke(inv[i])]
        /\ UNCHANGED mergeVars

DoAStreamAwaited ==
    \E i \in DOMAIN inv :
        /\ AtAStreamAwaited(inv[i])
        /\ inv' = [inv EXCEPT ![i] = AStreamAwaited(inv[i])]
        /\ UNCHANGED mergeVars

DoAStreamNext ==
    \E i \in DOMAIN inv :
        /\ AtAStreamNext(inv[i])
        /\ inv' = [inv EXCEPT ![i] = AStreamNext(inv[i])]
        /\ UNCHANGED mergeVars

DoAStreamResume ==
    \E i \in DOMAIN inv :
        /\ AtAStreamResume(inv[i])
        /\ inv' = [inv EXCEPT ![i] = AStreamResume(inv[i])]
        /\ UNCHANGED mergeVars

DoACallAccumulate ==
    \E i \in DOMAIN inv :
        /\ AtACallAccumulate(inv[i])
        /\ inv' = [inv EXCEPT ![i] = ACallAccumulate(inv[i])]
        /\ UNCHANGED mergeVars

DoACallReturnCompletion ==
    \E i \in DOMAIN inv :
        /\ AtACallReturnCompletion(inv[i])
        /\ inv' = [inv EXCEPT ![i] = ACallReturnCompletion(inv[i])]
        /\ UNCHANGED mergeVars

----------------------------------------------------------------------------
(* Specifications.                                                         *)

MergeIdle ==
    /\ self = DefaultConfig
    /\ prompt = "p1"
    /\ kwargs = EmptyDict
    /\ params = NoParams

\* the scripts of a client whose dispatch fails never yield
ClientScripts ==
    {[dispatch_ok |-> TRUE, items |-> s, choices |-> <<>>] : s \in ItemScripts(MaxItems)}
    \cup {[dispatch_ok |-> FALSE, items |-> <<>>, choices |-> <<>>]}

ClientResponses ==
    {[dispatch_ok |-> TRUE, items |-> <<>>, choices |-> c] : c \in ChoiceLists}
    \cup {[dispatch_ok |-> FALSE, items |-> <<>>, choices |-> <<>>]}

\* the invocations that run _stream or _astream: _call/_acall with streaming
\* enabled, and the generators driven directly
StreamingInvocations ==
    {NewInvocation(e, s, rm, c.dispatch_ok, c.items, c.choices) :
        e \in {"call", "acall", "stream", "astream"}, s \in BOOLEAN,
        rm \in BOOLEAN, c \in ClientScripts}
    \ {NewInvocation(e, FALSE, rm, c.dispatch_ok, c.items, c.choices) :
        e \in {"call", "acall"}, rm \in BOOLEAN, c \in ClientScripts}

\* _call/_acall with streaming disabled
SingleInvocations ==
    {NewInvocation(e, FALSE, rm, c.dispatch_ok, c.items, c.choices) :
        e \in {"call", "acall"}, rm \in BOOLEAN, c \in ClientResponses}

InitStream ==
    /\ MergeIdle
    /\ \E r \in StreamingInvocations : inv = <<r>>

NextStream ==
    \/ DoStreamInvoke
    \/ DoStreamNext
    \/ DoStreamResume
    \/ DoCallAccumulate
    \/ DoCallReturn
    \/ DoAbandon
    \/ DoAStreamInvoke
    \/ DoAStreamAwaited
    \/ DoAStreamNext
    \/ DoAStreamResume
    \/ DoACallAccumulate
    \/ DoACallReturnCompletion

SpecStream == InitStream /\ [][NextStream]_vars

Init ==
    /\ MergeIdle
    /\ \E r \in StreamingInvocations \cup SingleInvocations : inv = <<r>>

Next ==
    \/ DoCallInvoke
    \/ DoCallExtract
    \/ DoACallInvoke
    \/ DoACallAwaited
    \/ DoACallReturn
    \/ DoStreamInvoke
    \/ DoStreamNext
    \/ DoStreamResume
    \/ DoCallAccumulate
    \/ DoCallReturn
    \/ DoAbandon
    \/ DoAStreamInvoke
    \/ DoAStreamAwaited
    \/ DoAStreamNext
    \/ DoAStreamResume
    \/ DoACallAccumulate
    \/ DoACallReturnCompletion

Spec == Init /\ [][Next]_vars

----------------------------------------------------------------------------
(* Two invocations side by side.                                           *)

\* _stream and _astream (driven directly, or by _call and _acall with streaming
\* enabled) against clients that yield the same items
InitPair ==
    /\ MergeIdle
    /\ \E c \in ClientScripts, rm \in BOOLEAN, s \in BOOLEAN, direct \in BOOLEAN :
          inv = <<NewInvocation(IF direct THEN "stream" ELSE "call", direct => s, rm,
                                c.dispatch_ok, c.items, c.choices),
                  NewInvocation(IF direct THEN "astream" ELSE "acall", direct => s, rm,
                                c.dispatch_ok, c.items, c.choices)>>

SpecPair == InitPair /\ [][NextStream]_vars

\* the ways to cut a text into k consecutive fragments (empty ones included)
Cuts(T, k) ==
    {c \in [0..k -> 0..Len(T)] :
        /\ c[0] = 0
        /\ c[k] = Len(T)
        /\ \A j \in 1..k : c[j - 1] <= c[j]}

Splits(T) ==
    {[j \in 1..k |-> StrItem(SubSeq(T, c[j - 1] + 1, c[j]))] :
        <<k, c>> \in UNION {{<<k, c>> : c \in Cuts(T, k)} : k \in 1..MaxSplit}}

\* _call with streaming enabled against a client that yields a split of T, beside
\* _call with streaming disabled against a client whose single choice has content T
InitRoundTrip ==
    /\ MergeIdle
    /\ \E T \in TextsUpTo(MaxWhole), rm \in BOOLEAN :
          \E items \in Splits(T) :
             inv = <<NewInvocation("call", TRUE, rm, TRUE, items, <<>>),
                     NewInvocation("call", FALSE, rm, TRUE, <<>>, <<T>>)>>

NextRoundTrip ==
    \/ DoCallInvoke
    \/ DoCallExtract
    \/ DoStreamInvoke
    \/ DoStreamNext
    \/ DoStreamResume
    \/ DoCallAccumulate
    \/ DoCallReturn

SpecRoundTrip == InitRoundTrip /\ [][NextRoundTrip]_vars

----------------------------------------------------------------------------
(* Properties.                                                             *)

Last(s) == s[Len(s)]
Front(s) == SubSeq(s, 1, Len(s) - 1)

\* the invocation ran to its end (it was not abandoned by its consumer)
Finished(r) ==
    \/ r.pc \in {"returned", "failed"}
    \/ r.pc = "exhausted" /\ r.entry \in {"stream", "astream"}

\* the texts of the truthy items, in order
TruthyTexts(items) ==
    LET sel == SelectSeq(items, Truthy) IN [j \in 1..Len(sel) |-> sel[j].v]

\* every quote and space character removed from both ends
RECURSIVE StripSurrounding(_)
StripSurrounding(s) ==
    IF s = <<>> THEN s
    ELSE IF Head(s) \in {Quote, Space} THEN StripSurrounding(Tail(s))
    ELSE IF Last(s) \in {Quote, Space} THEN StripSurrounding(Front(s))
    ELSE s

Merged == params # NoParams /\ "<TypeError>" \notin DOMAIN params

\* the value a key has below the per-call kwargs: model_kwargs over the default
\* sampling parameters over {prompt, model}
BelowKwargs(k) ==
    IF k \in DOMAIN self.model_kwargs THEN self.model_kwargs[k]
    ELSE IF k \in DOMAIN NormalParams(self) THEN NormalParams(self)[k]
    ELSE IF k = "prompt" THEN prompt
    ELSE self.model

\* C1 (as stated): for overrides that name neither "prompt" nor "model", the merged
\* request maps "prompt" to the prompt of the call and "model" to the configured
\* model, whatever model_kwargs holds.
C1_PromptAndModelAboveDefaults ==
    (Merged /\ DOMAIN kwargs \cap {"prompt", "model"} = {}) =>
        /\ params["prompt"] = prompt
        /\ params["model"] = self.model

\* C1 (amended): the precedence is, low to high, {prompt, model}, the default
\* sampling parameters, model_kwargs, the per-call overrides; for overrides that name
\* neither key, "prompt" and "model" map to model_kwargs' value when model_kwargs
\* names the key and to the call's prompt / the configured model otherwise.
C1_MergePrecedence ==
    Merged =>
        /\ DOMAIN params =
              {"prompt", "model", "streaming", "top_p", "temperature", "request_id"}
              \cup DOMAIN self.model_kwargs \cup DOMAIN kwargs
        /\ DOMAIN kwargs \cap {"prompt", "model"} = {} =>
              /\ params["prompt"] = IF "prompt" \in DOMAIN self.model_kwargs
                                    THEN self.model_kwargs["prompt"] ELSE prompt
              /\ params["model"] = IF "model" \in DOMAIN self.model_kwargs
                                   THEN self.model_kwargs["model"] ELSE self.model
        /\ \A k \in {"streaming", "top_p", "temperature", "request_id"} \ DOMAIN kwargs :
              params[k] = IF k \in DOMAIN self.model_kwargs
                          THEN self.model_kwargs[k] ELSE NormalParams(self)[k]

C1_Witness ==
    /\ Merged
    /\ DOMAIN kwargs = {"max_tokens"}
    /\ "prompt" \in DOMAIN self.model_kwargs
    /\ params["prompt"] # prompt

\* C2: every key of the per-call overrides appears in the merged request with the
\* override's value, every other key keeps its lower-precedence value, and the merge
\* leaves the configuration unchanged.
C2_OverridesWin ==
    /\ [](Merged =>
            /\ \A k \in DOMAIN kwargs : params[k] = kwargs[k]
            /\ \A k \in DOMAIN params \ DOMAIN kwargs : params[k] = BelowKwargs(k))
    /\ [][self' = self]_vars

C2_Witness ==
    /\ Merged
    /\ {"model", "top_p"} \subseteq DOMAIN kwargs
    /\ "top_p" \in DOMAIN self.model_kwargs
    /\ self.model_kwargs["top_p"] # kwargs["top_p"]
    /\ kwargs["model"] # self.model
    /\ "prompt" \in DOMAIN params \ DOMAIN kwargs
    /\ "max_tokens" \in DOMAIN params \ DOMAIN kwargs

\* C3: with streaming disabled _call returns the content of the last choice with all
\* surrounding quote and space characters removed; the content "hi there" in quotes
\* followed by a space yields hi there.
C3_StripsAllSurrounding ==
    \A i \in DOMAIN inv :
        (inv[i].entry = "call" /\ ~inv[i].streaming /\ inv[i].pc = "returned") =>
            /\ inv[i].result = StripSurrounding(Last(inv[i].client.choices))
            /\ Last(inv[i].client.choices) = HiThereContent => inv[i].result = HiThere

\* C4: with streaming enabled _call returns the concatenation, in arrival order, of
\* the texts of the fragments _stream emitted, one per non-empty client item, nothing
\* stripped; client items "He", "llo" give fragments "He", "llo" and the result "Hello".
C4_StreamingCallConcatenates ==
    \A i \in DOMAIN inv :
        (inv[i].entry = "call" /\ inv[i].streaming) =>
            /\ inv[i].completion =
                  ConcatAll(IF inv[i].pc = "yielded" THEN Front(inv[i].emitted)
                            ELSE inv[i].emitted)
            /\ inv[i].pc = "returned" =>
                  /\ inv[i].emitted = TruthyTexts(inv[i].client.items)
                  /\ inv[i].result = ConcatAll(inv[i].emitted)
            /\ (inv[i].pc = "returned" /\ inv[i].client.items = <<StrItem(He), StrItem(Llo)>>) =>
                  /\ inv[i].emitted = <<He, Llo>>
                  /\ inv[i].result = Hello

C4_Witness ==
    \E i \in DOMAIN inv :
        /\ inv[i].entry = "call"
        /\ inv[i].pc = "returned"
        /\ inv[i].client.items = <<StrItem(He), StrItem(Llo)>>
        /\ inv[i].result = Hello

\* the client yields only texts and None (and may raise)
TextOrNone(items) == \A j \in DOMAIN items : items[j].t \in {"none", "str", "raise"}

\* C5: in _stream and _astream a falsy item (empty string, None) gives no fragment
\* and no callback and a non-empty item gives exactly one fragment: the fragments
\* emitted are as many as the non-empty items taken so far, and a stream of empty
\* items makes the streaming call return the empty string.
C5_OneFragmentPerNonEmptyItem ==
    \A i \in DOMAIN inv :
        (Streams(inv[i]) /\ TextOrNone(inv[i].client.items)) =>
            /\ Len(inv[i].emitted) =
                  Cardinality({j \in 1..inv[i].pos : Truthy(inv[i].client.items[j])})
            /\ Len(inv[i].tokens) <= Len(inv[i].emitted)
            /\ (inv[i].pc = "returned" /\ TruthyTexts(inv[i].client.items) = <<>>) =>
                  inv[i].result = <<>>

\* C6: with streaming disabled _acall awaits the client once and, when the client
\* call succeeds, returns the text extracted from that response, as _call does.
C6_ACallReturnsExtractedText ==
    \A i \in DOMAIN inv :
        (/\ inv[i].entry = "acall" /\ ~inv[i].streaming
         /\ inv[i].client.dispatch_ok /\ inv[i].client.choices # <<>>
         /\ inv[i].pc \in {"returned", "failed"}) =>
            /\ inv[i].dispatched = 1
            /\ inv[i].pc = "returned"
            /\ inv[i].result = StripContent(Last(inv[i].client.choices))

\* the whole text of the round trip, and whether it begins or ends with a quote
\* or a space
WholeText == inv[2].client.choices[1]
Bare(T) == T = <<>> \/ (Head(T) \notin {Quote, Space} /\ Last(T) \notin {Quote, Space})
BothReturned == inv[1].pc = "returned" /\ inv[2].pc = "returned"

\* C7 (as stated): for every text T and every split of T, the concatenation of the
\* fragments of the streaming path equals the result of the non-streaming call on T.
C7_RoundTripAllTexts ==
    BothReturned =>
        /\ ConcatAll(inv[1].emitted) = inv[2].result
        /\ inv[1].result = inv[2].result

\* C7 (amended): the round trip holds for every text T that neither begins nor ends
\* with a quote or a space character, and every split of T.
C7_RoundTripBareTexts ==
    (BothReturned /\ Bare(WholeText)) =>
        /\ ConcatAll(inv[1].emitted) = inv[2].result
        /\ inv[1].result = inv[2].result

C7_Witness ==
    /\ BothReturned
    /\ WholeText = <<"a", Quote, "a">>
    /\ Len(inv[1].emitted) = 3
    /\ inv[1].result = inv[2].result

\* C8 (as stated): with a run_manager, once the stream is finished or abandoned the
\* callback texts are the emitted fragment texts.
C8_CallbackForEveryFragment ==
    \A i \in DOMAIN inv :
        (inv[i].run_manager /\ (Finished(inv[i]) \/ inv[i].pc = "closed")) =>
            inv[i].tokens = inv[i].emitted

\* C8 (amended): with a run_manager the callback for a fragment runs when the
\* consumer resumes the stream after that fragment, before the next one is yielded:
\* the callback texts are the emitted texts, less the last one while the stream is
\* suspended at its yield; a stream that ran to its end or failed has them equal, and
\* a stream abandoned after a fragment never gets the callback for that fragment.
\* Without a run_manager there is no callback.
C8_CallbackOnResume ==
    \A i \in DOMAIN inv :
        /\ inv[i].run_manager =>
              /\ inv[i].pc \in {"yielded", "accumulated", "closed"} =>
                    inv[i].tokens = Front(inv[i].emitted)
              /\ inv[i].pc \notin {"yielded", "accumulated", "closed"} =>
                    inv[i].tokens = inv[i].emitted
        /\ ~inv[i].run_manager => inv[i].tokens = <<>>

C8_Witness ==
    \E i \in DOMAIN inv :
        /\ inv[i].run_manager
        /\ inv[i].pc = "closed"
        /\ Len(inv[i].emitted) = 2
        /\ inv[i].tokens = <<inv[i].emitted[1]>>

\* C9: against clients that yield the same items, the synchronous and the
\* asynchronous streaming paths emit the same fragments, each the text of a non-empty
\* item, and end alike with the same string.
C9_AsyncStreamsLikeSync ==
    (Finished(inv[1]) /\ Finished(inv[2])) =>
        /\ inv[1].emitted = inv[2].emitted
        /\ inv[1].pc = inv[2].pc
        /\ inv[1].result = inv[2].result

\* the client has raised: at dispatch (for an awaited call, once the await has
\* delivered the exception) or while yielding
ClientFailed(r) ==
    \/ r.dispatched > 0 /\ ~r.client.dispatch_ok /\ r.pc # "awaiting"
    \/ r.pos > 0 /\ r.client.items[r.pos].t = "raise"

\* C10: the client is dispatched exactly once per invocation; when the client fails,
\* or the non-streaming response has an empty choice list, the call ends failed with
\* that error (IndexError for the empty list) and returns no string.
C10_NoLocalRecovery ==
    \A i \in DOMAIN inv :
        /\ inv[i].dispatched <= 1
        /\ inv[i].pc # "start" => inv[i].dispatched = 1
        /\ ClientFailed(inv[i]) =>
              /\ inv[i].pc = "failed"
              /\ inv[i].error = "ClientError"
              /\ inv[i].result = NoResult
        /\ (/\ ~Streams(inv[i]) /\ inv[i].client.dispatch_ok
            /\ inv[i].client.choices = <<>>
            /\ inv[i].pc \notin {"start", "awaiting", "responded"}) =>
              /\ inv[i].pc = "failed"
              /\ inv[i].error = "IndexError"
              /\ inv[i].result = NoResult

====
